---- MODULE Spec2Model ----
(***************************************************************************)
(* memex: the concurrent ingestion pipeline of build_index (lib.rs), the   *)
(* per-file extractor digest (lib.rs) and the result shaping of            *)
(* IndexServer::search (api.rs).                                           *)
(*                                                                         *)
(* Strings are sequences of atoms.  "/", "." and ":" are the characters    *)
(* the code looks at; every other atom ("a", "pdf", "PDF", ...) stands for *)
(* a non-empty chunk of characters holding none of those three, so two     *)
(* strings are equal exactly when their atom sequences are.                *)
(* Option<T> is a sequence: << >> is None, <<v>> is Some(v).               *)
(***************************************************************************)
EXTENDS Integers, Sequences, FiniteSets, TLC

VARIABLES
    threads,    \* build_index's `threads` argument
    tree,       \* the directory entries under src_path
    pending,    \* entries the walker has not yet handed to a visitor
    quit,       \* the walker's quit flag (a visitor returned WalkState::Quit)
    wpc,        \* per walker thread: position in the visitor closure
    wcur,       \* per walker thread: the directory entry being digested
    wbody,      \* per walker thread: `contents` read back in handle_pdf
    wentry,     \* per walker thread: the Entry about to be sent
    tmp,        \* the temp directory: file stem -> Option<the pdf whose text the file holds>
    queue,      \* the sync_channel's buffer
    rxAlive,    \* the Receiver has not been dropped
    txMain,     \* build_index's own Sender `tx` has not been dropped
    wrpc,       \* the writer thread's position
    wrcur,      \* the Entry the writer has received and not yet added
    docs,       \* add_document calls so far, in order
    commits,    \* number of completed commits
    mpc,        \* build_index's own position
    sent,       \* history: Entries sent on the channel, in order
    sentOf,     \* history: the entries whose Entry was sent
    digested,   \* history: the entries handed to digest
    produced,   \* history: the entries digest turned into an Entry
    failed,     \* history: the entries for which digest returned Err
    reported,   \* history: the entries with a line on stderr
    addsAfter,  \* history: add_document calls made after a commit
    index,      \* the Documents the committed index holds
    resp,       \* serve phase: the response to the last request
    searched,   \* serve phase: the last request ran a retrieval on the index
    default_fields, \* serve phase: the query parser's default fields
    req,        \* serve phase: the last request
    rejected,   \* history: a request before the last one had no q and was answered 400
    lines,      \* main.rs: the lines of stdin not yet read
    jobs        \* main.rs: the lines queued in the thread pool

vars == <<threads, tree, pending, quit, wpc, wcur, wbody, wentry, tmp, queue,
          rxAlive, txMain, wrpc, wrcur, docs, commits, mpc, sent, sentOf,
          digested, produced, failed, reported, addsAfter, index, resp, searched,
          default_fields, req, rejected, lines, jobs>>

\* ---------------------------------------------------------------- bounds
MaxThreads == 2
MaxEntries == 3
MaxPathLen == 4
MaxLocLen == 4
\* main.rs at a smaller scale: the pool's 8 threads, the channel's 100 slots
\* and the number of lines on stdin
PoolThreads == 2
StdinChannelCap == 2
MaxLines == 5

\* ------------------------------------------------------- strings, paths
MaxOf(S) == CHOOSE x \in S : \A y \in S : y <= x
MinOf(S) == CHOOSE x \in S : \A y \in S : x <= y

Positions(s, c) == {i \in 1..Len(s) : s[i] = c}

\* str::rsplit_once("."): None, or Some((before the last ".", after it))
rsplit_once(s) ==
    IF Positions(s, ".") = {} THEN << >>
    ELSE LET i == MaxOf(Positions(s, "."))
         IN  << <<SubSeq(s, 1, i - 1), SubSeq(s, i + 1, Len(s))>> >>

RECURSIVE Split(_)
Split(s) ==
    IF Positions(s, "/") = {} THEN <<s>>
    ELSE LET i == MinOf(Positions(s, "/"))
         IN  <<SubSeq(s, 1, i - 1)>> \o Split(SubSeq(s, i + 1, Len(s)))

IsNormal(c) == c # << >> /\ c # <<".">>

\* F(v), with v evaluated once however often F uses it
Apply(F(_), v) == CHOOSE r \in {F(x) : x \in {v}} : TRUE

\* Path::file_name: the last component, unless the path has none or ends in ".."
file_name(p) ==
    Apply(LAMBDA cs : IF cs = << >> \/ cs[Len(cs)] = <<".", ".">> THEN << >>
                      ELSE <<cs[Len(cs)]>>,
          SelectSeq(Split(p), IsNormal))

\* Path::file_stem: the file name before its last ".", the whole name when it
\* has no "." or only a leading one
file_stem(p) ==
    Apply(LAMBDA fn :
              IF fn = << >> THEN << >>
              ELSE LET name == fn[1]
                       sp == rsplit_once(name)
                   IN  IF sp = << >> THEN <<name>>
                       ELSE IF sp[1][1] = << >> THEN <<name>>
                       ELSE <<sp[1][1]>>,
          file_name(p))

\* filename: p.file_stem().unwrap()...; << >> is the unwrap's panic
filename(p) == file_stem(p)

\* ------------------------------------------------------------- entries
NoEntry == [title |-> << >>, body |-> << >>, loc |-> << >>, archive_loc |-> << >>]

Ok(e) == [tag |-> "Some", entry |-> e]
OkNone == [tag |-> "None", entry |-> NoEntry]
Err == [tag |-> "Err", entry |-> NoEntry]
Panic == [tag |-> "Panic", entry |-> NoEntry]

\* what read_to_string yields for the file at path p
FileText(p) == <<"text:">> \o p

\* handle_text; read is "text", "binary" (not UTF-8) or "unreadable"
handle_text(p, read) ==
    IF read # "text" THEN Err
    ELSE IF filename(p) = << >> THEN Panic
    ELSE Ok([title |-> filename(p)[1], loc |-> << >>,
             body |-> <<FileText(p)>>, archive_loc |-> <<p>>])

\* a handle_webloc that always takes the title from the file name
handle_weblocIgnoresName(p, plist) ==
    IF plist = << >> THEN Err
    ELSE IF filename(p) = << >> THEN Panic
    ELSE Ok([title |-> filename(p)[1], loc |-> <<plist[1].url>>,
             body |-> << >>, archive_loc |-> << >>])

\* handle_webloc; plist is None (plist::from_file failed) or Some of
\* [name: Option<String>, url: String]
handle_webloc(p, plist) ==
    IF plist = << >> THEN Err
    ELSE IF plist[1].name # << >>
    THEN Ok([title |-> plist[1].name[1], loc |-> <<plist[1].url>>,
             body |-> << >>, archive_loc |-> << >>])
    ELSE IF filename(p) = << >> THEN Panic
    ELSE Ok([title |-> filename(p)[1], loc |-> <<plist[1].url>>,
             body |-> << >>, archive_loc |-> << >>])

\* the Entry handle_pdf returns, given the text it read back
PdfEntry(p, contents) ==
    [title |-> filename(p)[1], loc |-> << >>,
     body |-> <<contents>>, archive_loc |-> <<p>>]

\* digest's else branch: a path with no "." at all
BareEntry(p) ==
    IF filename(p) = << >> THEN Panic
    ELSE Ok([title |-> filename(p)[1], archive_loc |-> <<p>>,
             body |-> << >>, loc |-> << >>])

\* a dispatch that compares the extension without regard to case
HandlerIgnoreCase(p) ==
    LET sp == rsplit_once(p)
    IN  IF sp = << >> THEN "bare"
        ELSE LET ext == sp[1][2]
             IN  IF ext \in {<<"pdf">>, <<"PDF">>} THEN "pdf"
                 ELSE IF ext \in {<<"txt">>, <<"markdown">>, <<"md">>} THEN "text"
                 ELSE IF ext = <<"webloc">> THEN "webloc"
                 ELSE "skip"

\* digest's dispatch: which arm of the match the path takes
Handler(p) ==
    LET sp == rsplit_once(p)
    IN  IF sp = << >> THEN "bare"
        ELSE LET ext == sp[1][2]
             IN  IF ext = <<"pdf">> THEN "pdf"
                 ELSE IF ext \in {<<"txt">>, <<"markdown">>, <<"md">>} THEN "text"
                 ELSE IF ext = <<"webloc">> THEN "webloc"
                 ELSE "skip"

\* digest for every arm but handle_pdf, which works on the temp directory
digest(p, read, plist) ==
    CASE Handler(p) = "text" -> handle_text(p, read)
      [] Handler(p) = "webloc" -> handle_webloc(p, plist)
      [] Handler(p) = "skip" -> OkNone
      [] Handler(p) = "bare" -> BareEntry(p)

\* the Document the writer builds: absent fields become ""
OrEmpty(opt) == IF opt = << >> THEN << >> ELSE opt[1]

\* a doc!() with loc and archive_loc taken from each other's Entry field
DocumentSwapped(e) ==
    [title |-> e.title, body |-> OrEmpty(e.body), loc |-> OrEmpty(e.archive_loc),
     archive_loc |-> OrEmpty(e.loc)]

Document(e) ==
    [title |-> e.title, body |-> OrEmpty(e.body), loc |-> OrEmpty(e.loc),
     archive_loc |-> OrEmpty(e.archive_loc)]

\* no request has been handled yet
NoResponse == [status |-> "none", error |-> "", items |-> << >>, hits |-> << >>]
NoRequest == [decodable |-> FALSE, q |-> << >>, nhits |-> << >>, offset |-> << >>]

\* ------------------------------------------------------ the file tree
\* A directory entry. kind: what the walker yields for it ("error": an Err);
\* path: its path, in which the atom "\\xff" stands for bytes that are not UTF-8;
\* read: what reading the file as text gives ("text", "binary": not UTF-8,
\* "unreadable"); for a pdf, what pdftotext writes to its output path
\* ("nothing": it fails without output); plist: what plist::from_file gives
NoPlist == << >>
NoItem == [path |-> << >>, kind |-> "none", read |-> "unreadable", plist |-> NoPlist]

File(p, read) == [path |-> p, kind |-> "file", read |-> read, plist |-> NoPlist]

Universe ==
    {File(<<"x", "/", "a", ".", "pdf">>, "text"),
     File(<<"y", "/", "a", ".", "pdf">>, "text"),
     File(<<"x", "/", "b", ".", "pdf">>, "binary"),
     File(<<"x", "/", "n", ".", "txt">>, "text"),
     File(<<"x", "/", "w", ".", "webloc">>, "text"),
     File(<<"x", "/", "z", ".", "zip">>, "text"),
     File(<<"x", "/", "\\xff", ".", "txt">>, "text"),
     [path |-> <<"x", "/", "k">>, kind |-> "error", read |-> "unreadable", plist |-> NoPlist],
     [path |-> <<"x">>, kind |-> "dir", read |-> "unreadable", plist |-> NoPlist],
     [path |-> <<"x", "/", "l">>, kind |-> "symlink_file", read |-> "text", plist |-> NoPlist]}

\* OsString::into_string (line 142): None for a name that is not UTF-8, which
\* the atom "\\xff" stands for
into_string(p) == IF Positions(p, "\\xff") # {} THEN << >> ELSE <<p>>

\* Path::is_file follows symbolic links
is_file(kind) == kind \in {"file", "symlink_file"}

\* the temp file handle_pdf uses for an entry: temp_dir()/filename(p)
Stem(it) == file_stem(it.path)

\* ------------------------------------------------------ build_index
Workers == 1..threads

\* a channel built one slot too large
ChannelCapOffByOne == threads + 1

\* sync_channel::<Entry>(threads)
ChannelCap == threads

\* a Sender is alive: tx itself, or the clone a walker thread's visitor holds
SendersAlive ==
    txMain \/ \E w \in Workers : wpc[w] \notin {"done", "panicked"}

\* the state build_index is in once the writer is spawned and the walker built
Start(T, entries) ==
    /\ threads = T
    /\ tree = entries
    /\ pending = entries
    /\ quit = FALSE
    /\ wpc = [w \in 1..T |-> "idle"]
    /\ wcur = [w \in 1..T |-> NoItem]
    /\ wbody = [w \in 1..T |-> << >>]
    /\ wentry = [w \in 1..T |-> NoEntry]
    /\ tmp = [s \in {Stem(it) : it \in entries} |-> << >>]
    /\ queue = << >>
    /\ rxAlive = TRUE
    /\ txMain = TRUE
    /\ wrpc = "recv"
    /\ wrcur = NoEntry
    /\ docs = << >>
    /\ commits = 0
    /\ mpc = "run"
    /\ sent = << >>
    /\ sentOf = {}
    /\ digested = {}
    /\ produced = {}
    /\ failed = {}
    /\ reported = {}
    /\ addsAfter = 0
    /\ index = << >>
    /\ resp = NoResponse
    /\ searched = FALSE
    /\ default_fields = {}
    /\ req = NoRequest
    /\ rejected = FALSE
    /\ lines = << >>
    /\ jobs = << >>

InitBuild ==
    \E T \in 1..MaxThreads :
        \E entries \in {S \in SUBSET Universe : S # {} /\ Cardinality(S) <= MaxEntries} :
            Start(T, entries)

writerVars == <<rxAlive, wrpc, wrcur, docs, commits, addsAfter>>
histVars == <<sent, sentOf, digested, produced, failed, reported>>

\* a visitor that unwraps digest's Result: an Err panics the walker thread
AfterDigestUnwrap(tag) ==
    CASE tag = "Some" -> "send"
      [] tag = "None" -> "idle"
      [] OTHER -> "panicked"

\* where the visitor goes after `match digest(path)` (lines 143-149): Ok(Some)
\* sends, Ok(None) and Err return WalkState::Continue, an unwrap's panic unwinds
AfterDigest(tag) ==
    CASE tag = "Some" -> "send"
      [] tag = "Panic" -> "panicked"
      [] OTHER -> "idle"

\* the visitor closure up to the return of digest (lines 139-156); handle_pdf
\* goes on in PdfSpawn
Visit(w) ==
    /\ mpc = "run" /\ wpc[w] = "idle" /\ ~quit
    /\ \E it \in pending :
        /\ pending' = pending \ {it}
        /\ IF it.kind = "error"
           THEN /\ quit' = TRUE
                /\ reported' = reported \cup {it}
                /\ UNCHANGED <<wpc, wcur, wentry, digested, produced, failed>>
           ELSE IF ~is_file(it.kind)
           THEN UNCHANGED <<quit, reported, wpc, wcur, wentry, digested, produced, failed>>
           ELSE IF into_string(it.path) = << >>
           THEN /\ wpc' = [wpc EXCEPT ![w] = "panicked"]
                /\ UNCHANGED <<quit, reported, wcur, wentry, digested, produced, failed>>
           ELSE IF Handler(it.path) = "pdf"
           THEN /\ wpc' = [wpc EXCEPT ![w] =
                              IF filename(it.path) = << >> THEN "panicked" ELSE "pdf_spawn"]
                /\ wcur' = [wcur EXCEPT ![w] = it]
                /\ digested' = digested \cup {it}
                /\ UNCHANGED <<quit, reported, wentry, produced, failed>>
           ELSE \E r \in {digest(it.path, it.read, it.plist)} :
                /\ digested' = digested \cup {it}
                /\ quit' = quit
                /\ wpc' = [wpc EXCEPT ![w] = AfterDigest(r.tag)]
                /\ wcur' = [wcur EXCEPT ![w] = IF r.tag = "Some" THEN it ELSE NoItem]
                /\ wentry' = [wentry EXCEPT ![w] = r.entry]
                /\ produced' = IF r.tag = "Some" THEN produced \cup {it} ELSE produced
                /\ failed' = IF r.tag = "Err" THEN failed \cup {it} ELSE failed
                /\ reported' = IF r.tag = "Err" THEN reported \cup {it} ELSE reported
    /\ UNCHANGED <<index, resp, searched, default_fields, req, rejected, lines, jobs,
                   threads, tree, wbody, tmp, queue, txMain, mpc, sent, sentOf>>
    /\ UNCHANGED writerVars

\* handle_pdf returning Err through a `?` (lines 66, 69, 70, 73)
PdfErr(w) ==
    /\ wpc' = [wpc EXCEPT ![w] = AfterDigest("Err")]
    /\ failed' = failed \cup {wcur[w]}
    /\ reported' = reported \cup {wcur[w]}
    /\ wcur' = [wcur EXCEPT ![w] = NoItem]
    /\ wbody' = [wbody EXCEPT ![w] = << >>]
    /\ UNCHANGED <<wentry, produced, sent, sentOf, digested>>

\* Command::new("pdftotext").args([path, tmp_path]).output()? (lines 61-66):
\* the tool may be missing; when it runs it writes its output path, or fails
\* and writes nothing
PdfSpawn(w) ==
    /\ wpc[w] = "pdf_spawn"
    /\ \E spawned \in BOOLEAN :
        IF ~spawned
        THEN PdfErr(w) /\ tmp' = tmp
        ELSE /\ tmp' = IF wcur[w].read = "nothing" THEN tmp
                       ELSE [tmp EXCEPT ![Stem(wcur[w])] = <<wcur[w]>>]
             /\ wpc' = [wpc EXCEPT ![w] = "pdf_read"]
             /\ UNCHANGED <<wcur, wbody, wentry>>
             /\ UNCHANGED histVars
    /\ UNCHANGED <<index, resp, searched, default_fields, req, rejected, lines, jobs,
                   threads, tree, pending, quit, queue, txMain, mpc>>
    /\ UNCHANGED writerVars

\* File::open(&tmp_path)?; file.read_to_string(&mut contents)? (lines 68-70)
PdfRead(w) ==
    /\ wpc[w] = "pdf_read"
    /\ LET f == tmp[Stem(wcur[w])] IN
       IF f = << >> \/ f[1].read # "text"
       THEN PdfErr(w)
       ELSE /\ wbody' = [wbody EXCEPT ![w] = FileText(f[1].path)]
            /\ wpc' = [wpc EXCEPT ![w] = "pdf_remove"]
            /\ UNCHANGED <<wcur, wentry>>
            /\ UNCHANGED histVars
    /\ UNCHANGED <<index, resp, searched, default_fields, req, rejected, lines, jobs,
                   threads, tree, pending, quit, tmp, queue, txMain, mpc>>
    /\ UNCHANGED writerVars

\* drop(file); std::fs::remove_file(&tmp_path)?; Ok(Some(Entry{..})) (lines 72-80)
PdfRemove(w) ==
    /\ wpc[w] = "pdf_remove"
    /\ IF tmp[Stem(wcur[w])] = << >>
       THEN PdfErr(w) /\ tmp' = tmp
       ELSE /\ tmp' = [tmp EXCEPT ![Stem(wcur[w])] = << >>]
            /\ wentry' = [wentry EXCEPT ![w] = PdfEntry(wcur[w].path, wbody[w])]
            /\ wpc' = [wpc EXCEPT ![w] = AfterDigest("Some")]
            /\ wbody' = [wbody EXCEPT ![w] = << >>]
            /\ produced' = produced \cup {wcur[w]}
            /\ UNCHANGED <<wcur, sent, sentOf, digested, failed, reported>>
    /\ UNCHANGED <<index, resp, searched, default_fields, req, rejected, lines, jobs,
                   threads, tree, pending, quit, queue, txMain, mpc>>
    /\ UNCHANGED writerVars

\* tx.send(entry).unwrap() (line 145): blocks while the buffer is full,
\* fails (and the unwrap panics) once the Receiver is gone
Send(w) ==
    /\ wpc[w] = "send"
    /\ IF ~rxAlive
       THEN /\ wpc' = [wpc EXCEPT ![w] = "panicked"]
            /\ UNCHANGED <<queue, sent, sentOf, wcur, wentry>>
       ELSE /\ Len(queue) < ChannelCap
            /\ queue' = Append(queue, wentry[w])
            /\ sent' = Append(sent, wentry[w])
            /\ sentOf' = sentOf \cup {wcur[w]}
            /\ wpc' = [wpc EXCEPT ![w] = "idle"]
            /\ wcur' = [wcur EXCEPT ![w] = NoItem]
            /\ wentry' = [wentry EXCEPT ![w] = NoEntry]
    /\ UNCHANGED <<index, resp, searched, default_fields, req, rejected, lines, jobs,
                   threads, tree, pending, quit, wbody, tmp, txMain, mpc,
                   digested, produced, failed, reported>>
    /\ UNCHANGED writerVars

\* a walker thread ends (its visitor, and the Sender clone in it, is dropped)
\* when the walk is over or has been quit
WorkerExit(w) ==
    /\ wpc[w] = "idle"
    /\ quit \/ pending = {}
    /\ wpc' = [wpc EXCEPT ![w] = "done"]
    /\ UNCHANGED <<index, resp, searched, default_fields, req, rejected, lines, jobs,
                   threads, tree, pending, quit, wcur, wbody, wentry, tmp, queue,
                   txMain, mpc>>
    /\ UNCHANGED histVars
    /\ UNCHANGED writerVars

\* a writer that polls (rx.try_iter()) and so leaves its loop as soon as the
\* buffer is empty, whether or not a Sender lives
WriterRecvPolling ==
    /\ wrpc = "recv"
    /\ IF queue # << >>
       THEN /\ wrcur' = Head(queue)
            /\ queue' = Tail(queue)
            /\ wrpc' = "add"
       ELSE /\ wrpc' = "commit"
            /\ UNCHANGED <<wrcur, queue>>
    /\ UNCHANGED <<index, resp, searched, default_fields, req, rejected, lines, jobs,
                   threads, tree, pending, quit, wpc, wcur, wbody, wentry, tmp,
                   rxAlive, txMain, docs, commits, addsAfter, mpc>>
    /\ UNCHANGED <<sent, sentOf, digested, produced, failed, reported>>

\* a writer that leaves its loop once the walk has been quit
WriterRecvStopsOnQuit ==
    /\ wrpc = "recv"
    /\ IF queue # << >> /\ ~quit
       THEN /\ wrcur' = Head(queue)
            /\ queue' = Tail(queue)
            /\ wrpc' = "add"
       ELSE /\ quit \/ ~SendersAlive
            /\ wrpc' = "commit"
            /\ UNCHANGED <<wrcur, queue>>
    /\ UNCHANGED <<index, resp, searched, default_fields, req, rejected, lines, jobs,
                   threads, tree, pending, quit, wpc, wcur, wbody, wentry, tmp,
                   rxAlive, txMain, docs, commits, addsAfter, mpc>>
    /\ UNCHANGED histVars

\* the writer thread: `for entry in rx.iter()` (line 119) yields the next
\* Entry, waits while the buffer is empty and a Sender lives, and ends after
\* that
WriterRecv ==
    /\ wrpc = "recv"
    /\ IF queue # << >>
       THEN /\ wrcur' = Head(queue)
            /\ queue' = Tail(queue)
            /\ wrpc' = "add"
       ELSE /\ ~SendersAlive
            /\ wrpc' = "commit"
            /\ UNCHANGED <<wrcur, queue>>
    /\ UNCHANGED <<index, resp, searched, default_fields, req, rejected, lines, jobs,
                   threads, tree, pending, quit, wpc, wcur, wbody, wentry, tmp,
                   rxAlive, txMain, docs, commits, addsAfter, mpc>>
    /\ UNCHANGED histVars

\* index_writer.add_document(doc!(..)).expect("failed to insert doc") (lines
\* 120-127); the panic unwinds the thread, which drops the Receiver
WriterAdd ==
    /\ wrpc = "add"
    /\ \E inserted \in BOOLEAN :
        IF inserted
        THEN /\ docs' = Append(docs, Document(wrcur))
             /\ addsAfter' = IF commits > 0 THEN addsAfter + 1 ELSE addsAfter
             /\ wrpc' = "recv"
             /\ wrcur' = NoEntry
             /\ UNCHANGED <<rxAlive, queue>>
        ELSE /\ wrpc' = "panicked"
             /\ rxAlive' = FALSE
             /\ queue' = << >>
             /\ UNCHANGED <<docs, addsAfter, wrcur>>
    /\ UNCHANGED <<index, resp, searched, default_fields, req, rejected, lines, jobs,
                   threads, tree, pending, quit, wpc, wcur, wbody, wentry, tmp,
                   txMain, commits, mpc>>
    /\ UNCHANGED histVars

\* index_writer.commit().expect("failed to commit") (line 129), the end of
\* the writer's closure
WriterCommit ==
    /\ wrpc = "commit"
    /\ \E committed \in BOOLEAN :
        IF committed
        THEN /\ commits' = commits + 1
             /\ index' = index \o docs
             /\ wrpc' = "finished"
        ELSE /\ wrpc' = "panicked"
             /\ UNCHANGED <<commits, index>>
    /\ rxAlive' = FALSE
    /\ UNCHANGED <<resp, searched, default_fields, req, rejected, lines, jobs,
                   threads, tree, pending, quit, wpc, wcur, wbody, wentry, tmp,
                   queue, txMain, wrcur, docs, addsAfter, mpc>>
    /\ UNCHANGED histVars

\* walker.run returns when every walker thread has ended (a panic in one of
\* them is propagated); then drop(tx) (lines 137-159)
MainDropTx ==
    /\ mpc = "run"
    /\ \A w \in Workers : wpc[w] \in {"done", "panicked"}
    /\ mpc' = IF \E w \in Workers : wpc[w] = "panicked" THEN "panicked" ELSE "join"
    /\ txMain' = FALSE
    /\ UNCHANGED <<index, resp, searched, default_fields, req, rejected, lines, jobs,
                   threads, tree, pending, quit, wpc, wcur, wbody, wentry, tmp, queue>>
    /\ UNCHANGED histVars
    /\ UNCHANGED writerVars

\* a join whose result is dropped: Ok(index) whether or not the writer panicked
MainJoinIgnoresPanic ==
    /\ mpc = "join"
    /\ wrpc \in {"finished", "panicked"}
    /\ mpc' = "returned"
    /\ UNCHANGED <<index, resp, searched, default_fields, req, rejected, lines, jobs,
                   threads, tree, pending, quit, wpc, wcur, wbody, wentry, tmp, queue,
                   txMain>>
    /\ UNCHANGED histVars
    /\ UNCHANGED writerVars

\* writer.join().unwrap(); Ok(index) (lines 160-161)
MainJoin ==
    /\ mpc = "join"
    /\ wrpc \in {"finished", "panicked"}
    /\ mpc' = IF wrpc = "finished" THEN "returned" ELSE "panicked"
    /\ UNCHANGED <<index, resp, searched, default_fields, req, rejected, lines, jobs,
                   threads, tree, pending, quit, wpc, wcur, wbody, wentry, tmp, queue,
                   txMain>>
    /\ UNCHANGED histVars
    /\ UNCHANGED writerVars

Next ==
    \/ \E w \in Workers : Visit(w)
    \/ \E w \in Workers : PdfSpawn(w)
    \/ \E w \in Workers : PdfRead(w)
    \/ \E w \in Workers : PdfRemove(w)
    \/ \E w \in Workers : Send(w)
    \/ \E w \in Workers : WorkerExit(w)
    \/ WriterRecv
    \/ WriterAdd
    \/ WriterCommit
    \/ MainDropTx
    \/ MainJoin

Spec == InitBuild /\ [][Next]_vars

\* ------------------------------------------------- fair scheduling
\* build_index under a scheduler that lets every thread that can take a step
\* take one: each walker thread, the writer thread and build_index's own
\* thread. The trees are drawn from fewer files.
FairUniverse ==
    {File(<<"x", "/", "a", ".", "pdf">>, "text"),
     File(<<"x", "/", "n", ".", "txt">>, "text"),
     File(<<"x", "/", "m", ".", "md">>, "text"),
     File(<<"x", "/", "\\xff", ".", "txt">>, "text"),
     [path |-> <<"x", "/", "k">>, kind |-> "error", read |-> "unreadable", plist |-> NoPlist]}

InitFair ==
    \E T \in 1..MaxThreads :
        \E entries \in {S \in SUBSET FairUniverse : S # {} /\ Cardinality(S) <= MaxEntries} :
            Start(T, entries)

\* the steps of walker thread w
WorkerStep(w) ==
    /\ w \in Workers
    /\ \/ Visit(w) \/ PdfSpawn(w) \/ PdfRead(w) \/ PdfRemove(w) \/ Send(w) \/ WorkerExit(w)

Fairness ==
    /\ \A w \in 1..MaxThreads : WF_vars(WorkerStep(w))
    /\ WF_vars(WriterRecv \/ WriterAdd \/ WriterCommit)
    /\ WF_vars(MainDropTx \/ MainJoin)

FairSpec == InitFair /\ [][Next]_vars /\ Fairness

\* ------------------------------------------------- main.rs: stdin
\* main.rs reads paths from stdin, hands each to a thread pool that runs
\* process (the same code as digest) and sends the Entry, and spawns the
\* writer only after the last line. threads is the pool's size and tree the
\* set of lines; a line is an entry whose kind "error" stands for a line
\* that cannot be read (it is not UTF-8).
Names == <<"a", "b", "c", "d", "e", "f", "g", "h">>

\* the i-th path of a readable text file
TextLine(i) == File(<<Names[i], ".", "txt">>, "text")

\* lines of other kinds: a pdf, a file process skips, a file that cannot be
\* read, the empty line, a line that is not UTF-8
OtherLines ==
    {File(<<"p", ".", "pdf">>, "text"),
     File(<<"z", ".", "zip">>, "text"),
     File(<<"u", ".", "txt">>, "unreadable"),
     File(<< >>, "unreadable"),
     [path |-> <<"\\xff">>, kind |-> "error", read |-> "unreadable", plist |-> NoPlist]}

\* stdin: at most MaxLines lines, text files after at most one other line
Stdins ==
    {[i \in 1..k |-> TextLine(i)] : k \in 0..MaxLines}
    \cup {<<o>> \o [i \in 1..k |-> TextLine(i)] : o \in OtherLines, k \in 0..(MaxLines - 1)}

\* main up to the for loop (lines 99-112)
InitStdin ==
    \E input \in Stdins :
        /\ threads = PoolThreads
        /\ tree = {input[i] : i \in 1..Len(input)}
        /\ pending = {}
        /\ quit = FALSE
        /\ wpc = [w \in 1..PoolThreads |-> "idle"]
        /\ wcur = [w \in 1..PoolThreads |-> NoItem]
        /\ wbody = [w \in 1..PoolThreads |-> << >>]
        /\ wentry = [w \in 1..PoolThreads |-> NoEntry]
        /\ tmp = [st \in {Stem(input[i]) : i \in 1..Len(input)} |-> << >>]
        /\ queue = << >>
        /\ rxAlive = TRUE
        /\ txMain = TRUE
        /\ wrpc = "unspawned"
        /\ wrcur = NoEntry
        /\ docs = << >>
        /\ commits = 0
        /\ mpc = "read"
        /\ sent = << >>
        /\ sentOf = {}
        /\ digested = {}
        /\ produced = {}
        /\ failed = {}
        /\ reported = {}
        /\ addsAfter = 0
        /\ index = << >>
        /\ resp = NoResponse
        /\ searched = FALSE
        /\ default_fields = {}
        /\ req = NoRequest
        /\ rejected = FALSE
        /\ lines = input
        /\ jobs = << >>

serveVars == <<index, resp, searched, default_fields, req, rejected>>

\* one turn of `for res in stdin.lock().lines()` (lines 113-127): a line that
\* was read is queued in the pool with a clone of tx (execute never blocks),
\* one that was not is reported
StdinRead ==
    /\ mpc = "read" /\ lines # << >>
    /\ lines' = Tail(lines)
    /\ IF Head(lines).kind = "error"
       THEN reported' = reported \cup {Head(lines)} /\ jobs' = jobs
       ELSE jobs' = Append(jobs, Head(lines)) /\ reported' = reported
    /\ UNCHANGED <<threads, tree, pending, quit, wpc, wcur, wbody, wentry, tmp, queue,
                   txMain, mpc, sent, sentOf, digested, produced, failed>>
    /\ UNCHANGED serveVars
    /\ UNCHANGED writerVars

\* a main that waits for the pool before it spawns the writer
StdinSpawnWriterAfterJoin ==
    /\ mpc = "read" /\ lines = << >>
    /\ jobs = << >> /\ \A w \in Workers : wpc[w] = "idle"
    /\ txMain' = FALSE
    /\ wrpc' = "recv"
    /\ mpc' = "pool_join"
    /\ UNCHANGED <<threads, tree, pending, quit, wpc, wcur, wbody, wentry, tmp, queue,
                   rxAlive, wrcur, docs, commits, addsAfter, lines, jobs>>
    /\ UNCHANGED serveVars
    /\ UNCHANGED histVars

\* drop(tx); let writer = thread::spawn(..) (lines 128-142), after the last line
StdinSpawnWriter ==
    /\ mpc = "read" /\ lines = << >>
    /\ txMain' = FALSE
    /\ wrpc' = "recv"
    /\ mpc' = "pool_join"
    /\ UNCHANGED <<threads, tree, pending, quit, wpc, wcur, wbody, wentry, tmp, queue,
                   rxAlive, wrcur, docs, commits, addsAfter, lines, jobs>>
    /\ UNCHANGED serveVars
    /\ UNCHANGED histVars

\* pool.join() (line 143) returns once no job is queued or running
PoolJoin ==
    /\ mpc = "pool_join"
    /\ jobs = << >> /\ \A w \in Workers : wpc[w] = "idle"
    /\ mpc' = "join"
    /\ UNCHANGED <<threads, tree, pending, quit, wpc, wcur, wbody, wentry, tmp, queue,
                   txMain, lines, jobs>>
    /\ UNCHANGED serveVars
    /\ UNCHANGED histVars
    /\ UNCHANGED writerVars

\* where a pool thread goes on: a job that panics ends its thread, which the
\* pool replaces by an idle one
PoolAfter(pc) == IF pc = "panicked" THEN "idle" ELSE pc

\* a pool thread takes the next job and runs process(line) (lines 116-123) up
\* to its return; handle_pdf goes on in PdfSpawn
PoolRun(w) ==
    /\ wpc[w] = "idle" /\ jobs # << >>
    /\ jobs' = Tail(jobs)
    /\ \E it \in {Head(jobs)} :
        /\ digested' = digested \cup {it}
        /\ IF Handler(it.path) = "pdf"
           THEN /\ wpc' = [wpc EXCEPT ![w] =
                              IF filename(it.path) = << >> THEN "idle" ELSE "pdf_spawn"]
                /\ wcur' = [wcur EXCEPT ![w] = it]
                /\ UNCHANGED <<reported, wentry, produced, failed>>
           ELSE \E r \in {digest(it.path, it.read, it.plist)} :
                /\ wpc' = [wpc EXCEPT ![w] = PoolAfter(AfterDigest(r.tag))]
                /\ wcur' = [wcur EXCEPT ![w] = IF r.tag = "Some" THEN it ELSE NoItem]
                /\ wentry' = [wentry EXCEPT ![w] = r.entry]
                /\ produced' = IF r.tag = "Some" THEN produced \cup {it} ELSE produced
                /\ failed' = IF r.tag = "Err" THEN failed \cup {it} ELSE failed
                /\ reported' = IF r.tag = "Err" THEN reported \cup {it} ELSE reported
    /\ UNCHANGED <<threads, tree, pending, quit, wbody, tmp, queue, txMain, mpc, sent,
                   sentOf, lines>>
    /\ UNCHANGED serveVars
    /\ UNCHANGED writerVars

\* tx.send(entry).unwrap() (line 119) on sync_channel(100): blocks while the
\* buffer is full, whether or not the writer has been spawned; panics once
\* the Receiver is gone
PoolSend(w) ==
    /\ wpc[w] = "send"
    /\ IF ~rxAlive
       THEN /\ wpc' = [wpc EXCEPT ![w] = PoolAfter("panicked")]
            /\ UNCHANGED <<queue, sent, sentOf>>
       ELSE /\ Len(queue) < StdinChannelCap
            /\ queue' = Append(queue, wentry[w])
            /\ sent' = Append(sent, wentry[w])
            /\ sentOf' = sentOf \cup {wcur[w]}
            /\ wpc' = [wpc EXCEPT ![w] = "idle"]
    /\ wcur' = [wcur EXCEPT ![w] = NoItem]
    /\ wentry' = [wentry EXCEPT ![w] = NoEntry]
    /\ UNCHANGED <<threads, tree, pending, quit, wbody, tmp, txMain, mpc, lines, jobs,
                   digested, produced, failed, reported>>
    /\ UNCHANGED serveVars
    /\ UNCHANGED writerVars

\* a Sender is alive: tx itself, or the clone a queued or running job holds
StdinSendersAlive ==
    txMain \/ jobs # << >> \/ \E w \in Workers : wpc[w] # "idle"

\* the writer thread's `for entry in rx.iter()` (line 131)
StdinWriterRecv ==
    /\ wrpc = "recv"
    /\ IF queue # << >>
       THEN /\ wrcur' = Head(queue)
            /\ queue' = Tail(queue)
            /\ wrpc' = "add"
       ELSE /\ ~StdinSendersAlive
            /\ wrpc' = "commit"
            /\ UNCHANGED <<wrcur, queue>>
    /\ UNCHANGED <<threads, tree, pending, quit, wpc, wcur, wbody, wentry, tmp,
                   rxAlive, txMain, docs, commits, addsAfter, mpc, lines, jobs>>
    /\ UNCHANGED serveVars
    /\ UNCHANGED histVars

NextStdin ==
    \/ StdinRead
    \/ StdinSpawnWriter
    \/ PoolJoin
    \/ MainJoin
    \/ \E w \in Workers : PoolRun(w)
    \/ \E w \in Workers : PdfSpawn(w)
    \/ \E w \in Workers : PdfRead(w)
    \/ \E w \in Workers : PdfRemove(w)
    \/ \E w \in Workers : PoolSend(w)
    \/ StdinWriterRecv
    \/ WriterAdd
    \/ WriterCommit

\* the steps of pool thread w
PoolStep(w) ==
    /\ w \in Workers
    /\ \/ PoolRun(w) \/ PdfSpawn(w) \/ PdfRead(w) \/ PdfRemove(w) \/ PoolSend(w)

\* every thread that can take a step takes one
StdinFairness ==
    /\ \A w \in 1..PoolThreads : WF_vars(PoolStep(w))
    /\ WF_vars(StdinWriterRecv \/ WriterAdd \/ WriterCommit)
    /\ WF_vars(StdinRead \/ StdinSpawnWriter \/ PoolJoin \/ MainJoin)

SpecStdin == InitStdin /\ [][NextStdin]_vars /\ StdinFairness

\* ------------------------------------------- digest on arbitrary paths
\* build_index on a root holding one regular file, for every path the walker
\* can yield for it and every content the handlers tell apart
PathAtoms == {"/", ".", "a", "pdf", "PDF", "txt", "md", "markdown", "webloc", "zip"}

Strings(atoms, n) == UNION {[1..k -> atoms] : k \in 0..n}

\* a path the walker yields for a file: its last component is a file name,
\* and only its first component may be empty (an absolute root), "." or ".."
IsWalkPath(p) ==
    LET cs == Split(p)
        Named(c) == c \notin {<< >>, <<".">>, <<".", ".">>}
    IN  /\ p # << >>
        /\ \A i \in 2..Len(cs) : Named(cs[i])
        /\ Len(cs) = 1 => Named(cs[1])

WalkPaths == {p \in Strings(PathAtoms, MaxPathLen) : IsWalkPath(p)}

Url == <<"http", ":", "/", "/", "a">>

\* what plist::from_file can give: an error, or a Webloc with or without Name
Plists ==
    {NoPlist,
     <<[name |-> << >>, url |-> Url]>>,
     <<[name |-> <<<<"Example">>>>, url |-> Url]>>,
     <<[name |-> <<<< >>>>, url |-> Url]>>}

\* the contents a file at path p can have: only a file named *.webloc is
\* taken to hold a property list
Contents(p) ==
    IF p[Len(p)] = "webloc"
    THEN {[path |-> p, kind |-> "file", read |-> "text", plist |-> pl] : pl \in Plists}
    ELSE {File(p, "text"), File(p, "binary")}

InitDigest ==
    \E p \in WalkPaths : \E it \in Contents(p) : Start(1, {it})

SpecDigest == InitDigest /\ [][Next]_vars

\* ------------------------------------------------------ the search service
\* api.rs: the handler `search` and IndexServer::search, on a served index.
\* A query is a sequence of terms; the engine's parser rejects a query
\* holding "(" and its retrieval matches a Document one of whose default
\* fields holds one of the query's terms, ranked here in index order.
DefaultNumHits == 10
DefaultOffset == 0

\* tantivy's TextOptions flags and their `|`: TEXT is tokenized and indexed
\* with positions, STRING (RAW_STRING here) is indexed as one raw term, STORED
\* is not indexed
TEXT ==
    [indexing |-> <<[tokenizer |-> "default", record |-> "WithFreqsAndPositions"]>>,
     stored |-> FALSE]
RAW_STRING ==
    [indexing |-> <<[tokenizer |-> "raw", record |-> "Basic"]>>, stored |-> FALSE]
STORED == [indexing |-> << >>, stored |-> TRUE]
BitOr(a, b) ==
    [indexing |-> IF a.indexing # << >> THEN a.indexing ELSE b.indexing,
     stored |-> a.stored \/ b.stored]

\* schema_builder.add_text_field(name, options)
add_text_field(name, options) == [name |-> name, type |-> "Str", options |-> options]

\* the schema build_index registers (lib.rs lines 104-109)
Schema ==
    <<add_text_field("title", BitOr(TEXT, STORED)),
      add_text_field("body", TEXT),
      add_text_field("loc", BitOr(RAW_STRING, STORED)),
      add_text_field("archive_loc", BitOr(RAW_STRING, STORED))>>

\* IndexServer::load (lines 68-88): the fields of type Str whose
\* get_indexing_options() is Some
IndexServer_load(schema) ==
    {schema[i].name : i \in {j \in 1..Len(schema) :
                                /\ schema[j].type = "Str"
                                /\ schema[j].options.indexing # << >>}}

\* the tokenizer the schema names for a field
Tokenizer(f) ==
    LET i == CHOOSE j \in 1..Len(Schema) : Schema[j].name = f
    IN  Schema[i].options.indexing[1].tokenizer

\* a Document's field f holds the term t: one of its tokens is t, or, for a
\* raw field, the whole value is t
FieldMatches(d, f, t) ==
    IF Tokenizer(f) = "raw" THEN d[f] = <<t>>
    ELSE \E j \in 1..Len(d[f]) : d[f][j] = t

\* a numeric query-string parameter: << >> absent, <<n>> with n < 0 a value
\* usize::from_str rejects, <<n>> otherwise the number n
ParamOr(v, default) == IF v = << >> \/ v[1] < 0 THEN default ELSE v[1]

\* location.starts_with("/")
starts_with_slash(s) == Len(s) >= 1 /\ s[1] = "/"

\* location.contains("://")
contains_scheme(s) ==
    \E i \in 1..(Len(s) - 2) : s[i] = ":" /\ s[i + 1] = "/" /\ s[i + 2] = "/"

\* a location that prefers loc to archive_loc
locationPrefersLoc(aloc, loc) == IF Len(loc) = 0 THEN aloc ELSE loc

\* the location of a Document (lines 110-116)
location(aloc, loc) == IF Len(aloc) = 0 THEN loc ELSE aloc

\* the AlfredItem of a matched Document (lines 117-132)
AlfredItem(d) ==
    LET loc == location(d.archive_loc, d.loc)
    IN  [title |-> d.title,
         arg |-> loc,
         action |-> [file |-> IF starts_with_slash(loc) THEN <<loc>> ELSE << >>,
                     url |-> IF contains_scheme(loc) THEN <<loc>> ELSE << >>]]

RECURSIVE Ascending(_)
Ascending(S) ==
    IF S = {} THEN << >> ELSE <<MinOf(S)>> \o Ascending(S \ {MinOf(S)})

\* query_parser.parse_query(&q) succeeds
Parses(q) == Positions(q, "(") = {}

\* searcher.search(&query, &(TopDocs::with_limit(num_hits).and_offset(offset), Count)):
\* the addresses of the matches ranked offset+1 .. offset+num_hits
top_docs(q, num_hits, offset) ==
    LET Terms == {q[i] : i \in 1..Len(q)}
        matches == {i \in 1..Len(index) :
                        \E f \in default_fields : \E t \in Terms :
                            FieldMatches(index[i], f, t)}
        ranked == Ascending(matches)
        last == IF offset + num_hits < Len(ranked) THEN offset + num_hits ELSE Len(ranked)
    IN  SubSeq(ranked, offset + 1, last)

\* IndexServer::search (lines 90-137); the handler unwraps it
IndexServer_search(q, num_hits, offset) ==
    IF ~Parses(q)
    THEN [status |-> "panic", error |-> "Parsing the query failed", items |-> << >>,
          hits |-> << >>]
    ELSE LET hits == top_docs(q, num_hits, offset)
         IN  [status |-> "200", error |-> "",
              items |-> [k \in 1..Len(hits) |-> AlfredItem(index[hits[k]])],
              hits |-> hits]

\* the requests: a query string that does not decode, or one that does,
\* with or without q, nhits and offset
Requests ==
    {[decodable |-> FALSE, q |-> << >>, nhits |-> << >>, offset |-> << >>]}
    \cup [decodable : {TRUE},
          q : {<< >>, <<<<"Alpha">>>>, <<<<"Beta">>>>, <<<<"Alpha", "Beta">>>>, <<<<"a">>>>,
               <<<<"(">>>>},
          nhits : {<< >>, <<-1>>, <<1>>},
          offset : {<< >>, <<-1>>, <<1>>}]

\* a handler that searches for the empty query when q is missing
HandleRequestEmptyQuery ==
    /\ \E r \in Requests :
        /\ req' = r
        /\ rejected' = (rejected \/ (resp.status = "400" /\ req.decodable /\ req.q = << >>))
        /\ IF ~r.decodable
           THEN /\ resp' = [status |-> "400", error |-> "Failed to decode error",
                            items |-> << >>, hits |-> << >>]
                /\ searched' = FALSE
           ELSE LET q == IF r.q = << >> THEN << >> ELSE r.q[1] IN
                /\ resp' = IndexServer_search(q, ParamOr(r.nhits, DefaultNumHits),
                                              ParamOr(r.offset, DefaultOffset))
                /\ searched' = Parses(q)
    /\ UNCHANGED <<threads, tree, pending, quit, wpc, wcur, wbody, wentry, tmp, queue,
                   txMain, mpc, index, default_fields, lines, jobs>>
    /\ UNCHANGED histVars
    /\ UNCHANGED writerVars

\* the handler `search` (lines 159-193)
HandleRequest ==
    /\ \E r \in Requests :
        /\ req' = r
        /\ rejected' = (rejected \/ (resp.status = "400" /\ req.decodable /\ req.q = << >>))
        /\ IF ~r.decodable
           THEN /\ resp' = [status |-> "400", error |-> "Failed to decode error",
                            items |-> << >>, hits |-> << >>]
                /\ searched' = FALSE
           ELSE IF r.q = << >>
           THEN /\ resp' = [status |-> "400",
                            error |-> "Parameter q is missing from the query",
                            items |-> << >>, hits |-> << >>]
                /\ searched' = FALSE
           ELSE /\ resp' = IndexServer_search(r.q[1], ParamOr(r.nhits, DefaultNumHits),
                                              ParamOr(r.offset, DefaultOffset))
                /\ searched' = Parses(r.q[1])
    /\ UNCHANGED <<threads, tree, pending, quit, wpc, wcur, wbody, wentry, tmp, queue,
                   txMain, mpc, index, default_fields, lines, jobs>>
    /\ UNCHANGED histVars
    /\ UNCHANGED writerVars

LocAtoms == {"/", ":", "a"}

BetaDoc ==
    [title |-> <<"Beta">>, body |-> << >>, loc |-> <<"http", ":", "/", "/", "b">>,
     archive_loc |-> << >>]

\* the Documents titled Alpha: any archive_loc with no loc or a short one,
\* or any loc with no archive_loc
AlphaDocs ==
    {[title |-> <<"Alpha">>, body |-> << >>, loc |-> l, archive_loc |-> a] :
        a \in Strings(LocAtoms, MaxLocLen), l \in {<< >>, <<"a">>, <<"/", "a">>}}
    \cup {[title |-> <<"Alpha">>, body |-> << >>, loc |-> l, archive_loc |-> << >>] :
              l \in Strings(LocAtoms, MaxLocLen)}

\* serve(index), once IndexServer::load has run, on an index holding a Document titled Alpha and the Document
\* Beta
InitSearch ==
    /\ threads = 1
    /\ tree = {}
    /\ pending = {}
    /\ quit = FALSE
    /\ wpc = [w \in 1..1 |-> "done"]
    /\ wcur = [w \in 1..1 |-> NoItem]
    /\ wbody = [w \in 1..1 |-> << >>]
    /\ wentry = [w \in 1..1 |-> NoEntry]
    /\ tmp = [s \in {} |-> << >>]
    /\ queue = << >>
    /\ rxAlive = FALSE
    /\ txMain = FALSE
    /\ wrpc = "finished"
    /\ wrcur = NoEntry
    /\ docs = << >>
    /\ commits = 1
    /\ mpc = "returned"
    /\ sent = << >>
    /\ sentOf = {}
    /\ digested = {}
    /\ produced = {}
    /\ failed = {}
    /\ reported = {}
    /\ addsAfter = 0
    /\ \E d \in AlphaDocs : index = <<d, BetaDoc>>
    /\ resp = NoResponse
    /\ searched = FALSE
    /\ default_fields = IndexServer_load(Schema)
    /\ req = NoRequest
    /\ rejected = FALSE
    /\ lines = << >>
    /\ jobs = << >>

NextSearch == HandleRequest

SpecSearch == InitSearch /\ [][NextSearch]_vars

\* ================================================================ claims
PdfPcs == {"pdf_spawn", "pdf_read", "pdf_remove"}

\* C1: the channel never holds more than `threads` Entries awaiting the
\* writer, and no step enlarges a full buffer: a producer that finds
\* `threads` Entries queued stays where it is until the writer receives one.
C1_BoundedChannel ==
    [][ /\ Len(queue') <= threads
        /\ (Len(queue) = threads => Len(queue') <= Len(queue) /\ sent' = sent)
        /\ \A w \in Workers :
              (wpc[w] = "send" /\ rxAlive /\ Len(queue) = threads /\ rxAlive')
                  => (wpc'[w] = "send" /\ wentry'[w] = wentry[w]) ]_vars

\* a producer blocked on a full buffer
C1_Witness ==
    \E w \in Workers : wpc[w] = "send" /\ rxAlive /\ Len(queue) = threads

\* C2: at most one commit, made only once every Sender is dropped and the
\* buffer is empty; every add_document precedes it; build_index returns only
\* after exactly one commit has completed and the writer has ended.
C2_CommitOrder ==
    /\ commits <= 1
    /\ addsAfter = 0
    /\ wrpc \in {"commit", "finished"} => (~SendersAlive /\ queue = << >>)
    /\ commits = 1 => (wrpc = "finished" /\ ~SendersAlive /\ queue = << >>)
    /\ mpc = "returned" => (commits = 1 /\ wrpc = "finished")

\* build_index has returned an index holding two documents
C2_Witness == mpc = "returned" /\ Len(docs) >= 2

\* the Document C3 expects for an Entry
ExpectedDoc(e) ==
    [title |-> e.title,
     body |-> IF e.body = << >> THEN << >> ELSE e.body[1],
     loc |-> IF e.loc = << >> THEN << >> ELSE e.loc[1],
     archive_loc |-> IF e.archive_loc = << >> THEN << >> ELSE e.archive_loc[1]]

ExpectedDocs == [i \in 1..Len(sent) |-> ExpectedDoc(sent[i])]

\* C3: the Documents added are, in order, the Documents of the Entries sent
\* (absent fields as empty strings), each at most once; while the writer
\* lives every Entry sent is added, held by the writer or still queued; and
\* when build_index returns every Entry sent has been added exactly once.
C3_ExactlyOnce ==
    /\ Len(docs) <= Len(sent)
    /\ docs = SubSeq(ExpectedDocs, 1, Len(docs))
    /\ wrpc # "panicked" =>
           Len(sent) = Len(docs) + Len(queue) + (IF wrpc = "add" THEN 1 ELSE 0)
    /\ mpc = "returned" => docs = ExpectedDocs

\* build_index has returned after adding two Entries, one of them with an
\* absent body
C3_Witness ==
    /\ mpc = "returned" /\ Len(docs) >= 2
    /\ \E i \in 1..Len(sent) : sent[i].body = << >> /\ docs[i].body = << >>

\* some thread of build_index can take a step (the guards of Next's actions)
CanStep ==
    \/ \E w \in Workers : wpc[w] = "idle" /\ mpc = "run" /\ ~quit /\ pending # {}
    \/ \E w \in Workers : wpc[w] \in PdfPcs
    \/ \E w \in Workers : wpc[w] = "send" /\ (~rxAlive \/ Len(queue) < ChannelCap)
    \/ \E w \in Workers : wpc[w] = "idle" /\ (quit \/ pending = {})
    \/ wrpc = "recv" /\ (queue # << >> \/ ~SendersAlive)
    \/ wrpc \in {"add", "commit"}
    \/ mpc = "run" /\ \A w \in Workers : wpc[w] \in {"done", "panicked"}
    \/ mpc = "join" /\ wrpc \in {"finished", "panicked"}

\* C4: a file whose extraction fails contributes no Entry and stops nothing:
\* the walk is quit only by a walker error, a walker thread panics only when
\* the writer is gone or on a file name that is not UTF-8 (never on an
\* extraction failure), the build can always go on unless the writer has
\* panicked, and when build_index returns every Entry digest produced has
\* been sent, added and committed.
C4_ExtractionFailureIsLocal ==
    /\ failed \cap (produced \cup sentOf) = {}
    /\ failed \subseteq reported
    /\ quit => \E it \in tree \ pending : it.kind = "error"
    /\ (\E w \in Workers : wpc[w] = "panicked") =>
           \/ wrpc = "panicked"
           \/ \E it \in tree \ pending : is_file(it.kind) /\ into_string(it.path) = << >>
    /\ (mpc \notin {"returned", "panicked"} /\ wrpc # "panicked") => CanStep
    /\ mpc = "returned" =>
           /\ produced = sentOf
           /\ Len(docs) = Len(sent)
           /\ Len(sent) = Cardinality(sentOf)
           /\ commits = 1

\* build_index has returned an index although one extraction failed, with the
\* Entry of another file in it
C4_Witness == mpc = "returned" /\ failed # {} /\ Len(docs) >= 1

\* C5 (as claimed): when build_index returns, every readable regular file
\* under the root has been digested, walker errors or not.
C5_WalkerErrorSkipsOnlyThatEntry ==
    mpc = "returned" =>
        \A it \in tree : (it.kind = "file" /\ it.read # "unreadable") => it \in digested

\* C6 (as claimed): whenever handle_pdf returns, with an Entry or with an
\* error, its temporary file does not exist.
C6_TempFileGone ==
    [][ \A w \in Workers :
            (wpc[w] \in PdfPcs /\ wpc'[w] \notin PdfPcs) => tmp'[Stem(wcur[w])] = << >> ]_vars

\* C7 (as claimed): the Entry handle_pdf returns for a file holds the text of
\* that file, and once pdftotext has written a file's text the extraction of
\* that file does not fail, whatever the other workers do.
C7_ExtractionsIndependent ==
    /\ \A w \in Workers :
           (wpc[w] = "send" /\ Handler(wcur[w].path) = "pdf")
               => wentry[w].body = <<FileText(wcur[w].path)>>
    /\ \A w \in Workers :
           (wpc[w] \in {"pdf_read", "pdf_remove"} /\ wcur[w].read = "text")
               => tmp[Stem(wcur[w])] # << >>

\* the extension of the file at path p, as Path::extension gives it: the part
\* of the file name after its last ".", None when the name has no "." or only
\* a leading one
extension(p) ==
    LET fn == file_name(p)
    IN  IF fn = << >> THEN << >>
        ELSE LET sp == rsplit_once(fn[1])
             IN  IF sp = << >> THEN << >>
                 ELSE IF sp[1][1] = << >> THEN << >>
                 ELSE <<sp[1][2]>>

\* the file name of path p holds no "."
NoDotInName(p) == file_name(p) # << >> /\ Positions(file_name(p)[1], ".") = {}

\* C8 (as claimed): a file whose name has no extension is turned into an
\* Entry with title = the file stem, archive_loc = the path, body and loc
\* absent, whatever the directories of its path are called.
C8_BareFileIndexed ==
    \A it \in digested :
        NoDotInName(it.path) =>
            /\ it \in produced
            /\ \A w \in Workers :
                   wcur[w] = it =>
                       wentry[w] = [title |-> file_stem(it.path)[1], body |-> << >>,
                                    loc |-> << >>, archive_loc |-> <<it.path>>]

KnownExtensions == {<<"pdf">>, <<"txt">>, <<"markdown">>, <<"md">>, <<"webloc">>}

OtherExtension(p) ==
    /\ extension(p) # << >>
    /\ extension(p)[1] # << >>
    /\ extension(p)[1] \notin KnownExtensions

\* C9: a file whose extension is non-empty and not exactly pdf, txt,
\* markdown, md or webloc yields no Entry and no error: nothing is reported
\* for it, no Entry of it is sent, no temp file is written for it and no
\* Document is added for it.
C9_OtherExtensionSkipped ==
    \A it \in tree :
        OtherExtension(it.path) =>
            /\ it \notin produced \cup failed \cup reported \cup sentOf
            /\ \A w \in Workers : wcur[w] # it
            /\ \A i \in 1..Len(sent) : sent[i].archive_loc # <<it.path>>
            /\ \A i \in 1..Len(docs) : docs[i].archive_loc # it.path
            /\ tmp[Stem(it)] = << >>

\* build_index has returned an empty index after digesting a file whose
\* extension differs from a known one only in case
C9_Witness ==
    /\ mpc = "returned" /\ commits = 1 /\ docs = << >>
    /\ \E it \in digested : extension(it.path) = <<<<"PDF">>>> /\ Len(Split(it.path)) > 1

BeginsWithSlash(s) == s # << >> /\ Head(s) = "/"
HasSchemeSeparator(s) ==
    \E i \in 1..Len(s) : i + 2 <= Len(s) /\ SubSeq(s, i, i + 2) = <<":", "/", "/">>

\* C10: in a response, the item of every matched Document has arg = the
\* Document's archive_loc when that is non-empty and its loc otherwise;
\* action.file is arg when arg begins with "/" and null otherwise; action.url
\* is arg when arg contains "://" and null otherwise.
C10_ResultShaping ==
    resp.status = "200" =>
        /\ Len(resp.items) = Len(resp.hits)
        /\ \A k \in 1..Len(resp.items) :
               LET d == index[resp.hits[k]]
                   item == resp.items[k]
               IN  /\ item.title = d.title
                   /\ item.arg = IF d.archive_loc # << >> THEN d.archive_loc ELSE d.loc
                   /\ item.action.file =
                          IF BeginsWithSlash(item.arg) THEN <<item.arg>> ELSE << >>
                   /\ item.action.url =
                          IF HasSchemeSeparator(item.arg) THEN <<item.arg>> ELSE << >>

\* a response with two items: one whose arg is a non-empty archive_loc that
\* is a file although the Document has a loc too, and one that is a url
C10_Witness ==
    /\ resp.status = "200" /\ Len(resp.items) = 2
    /\ index[resp.hits[1]].loc # << >>
    /\ resp.items[1].arg = index[resp.hits[1]].archive_loc
    /\ resp.items[1].action = [file |-> <<resp.items[1].arg>>, url |-> << >>]
    /\ resp.items[2].action = [file |-> << >>, url |-> <<resp.items[2].arg>>]

\* C11 (as claimed): in a response no item has both action.file and
\* action.url set.
C11_AtMostOneAction ==
    resp.status = "200" =>
        \A k \in 1..Len(resp.items) :
            resp.items[k].action.file = << >> \/ resp.items[k].action.url = << >>

\* C12 (as claimed): the default fields IndexServer::load gives the query
\* parser are exactly title and body.
C12_DefaultFieldsAreFullText == default_fields = {"title", "body"}

\* C13: a decodable request without q is answered 400 whatever nhits and
\* offset are, and runs no retrieval; no request changes what the server
\* holds; and a request with a q that parses is answered 200 with the items
\* of its matches, whether or not an earlier request was answered 400.
C13_MissingQueryRejected ==
    /\ (resp.status # "none" /\ req.decodable /\ req.q = << >>) =>
           /\ resp.status = "400"
           /\ resp.items = << >>
           /\ ~searched
    /\ index \in {<<d, BetaDoc>> : d \in AlphaDocs}
    /\ default_fields = IndexServer_load(Schema)
    /\ (req.decodable /\ req.q # << >> /\ Positions(req.q[1], "(") = {}) =>
           /\ resp.status = "200"
           /\ searched
           /\ (req.q[1] = <<"Alpha", "Beta">> /\ req.nhits = << >> /\ req.offset = << >>)
                  => resp.hits = <<1, 2>>

\* a request without q has been answered 400, and the request after it got
\* both of its matches
C13_Witness ==
    /\ rejected
    /\ resp.status = "200" /\ Len(resp.items) = 2

\* C14 (as claimed): every Entry digest produces has a non-empty title.
C14_TitleNonEmpty ==
    /\ \A w \in Workers : wpc[w] = "send" => wentry[w].title # << >>
    /\ \A i \in 1..Len(sent) : sent[i].title # << >>

\* a webloc file: its name has the extension webloc
IsWeblocFile(p) == extension(p) = <<<<"webloc">>>>

\* the file name of a webloc file without ".webloc"
NameWithoutExtension(p) ==
    LET name == file_name(p)[1] IN SubSeq(name, 1, Len(name) - 2)

\* the Entry C15 expects for a well-formed webloc file
WeblocEntry(it) ==
    [title |-> IF it.plist[1].name # << >> THEN it.plist[1].name[1]
               ELSE NameWithoutExtension(it.path),
     loc |-> <<it.plist[1].url>>,
     body |-> << >>,
     archive_loc |-> << >>]

\* C15: for a webloc file holding a well-formed property list digest returns
\* an Entry (never an error, never nothing) with loc = the URL, body and
\* archive_loc absent, and title = the Name when there is one and the file
\* name without its extension otherwise; that Entry is the one sent.
C15_WeblocEntry ==
    \A it \in digested :
        (IsWeblocFile(it.path) /\ it.plist # NoPlist) =>
            /\ it \in produced /\ it \notin failed
            /\ \A w \in Workers : wcur[w] = it => wentry[w] = WeblocEntry(it)
            /\ it \notin sentOf => \E w \in Workers : wcur[w] = it
            /\ it \in sentOf => \E i \in 1..Len(sent) : sent[i] = WeblocEntry(it)

\* the Entry of a webloc file with a Name has been sent and added with the
\* Name as its title
C15_Witness ==
    /\ mpc = "returned"
    /\ \E it \in sentOf :
           /\ IsWeblocFile(it.path) /\ it.plist # NoPlist
           /\ it.plist[1].name = <<<<"Example">>>>
           /\ sent = <<WeblocEntry(it)>>
           /\ docs[1].title = <<"Example">> /\ docs[1].loc = Url

\* C20 (as claimed): every entry handed to digest is a regular file, so no
\* directory and no symbolic link is digested or yields an Entry.
C20_OnlyRegularFilesDigested ==
    /\ \A it \in digested \cup produced \cup sentOf : it.kind = "file"
    /\ \A w \in Workers : wcur[w] # NoItem => wcur[w].kind = "file"

\* an add_document call has failed: the writer panicked holding an Entry
InsertFailed == wrpc = "panicked" /\ wrcur # NoEntry

\* C16: once an add_document call has failed no commit has been or will be
\* made and build_index does not return; and a producer at its send after
\* the failure does not stay there: its send returns (with an error).
C16_InsertFailureFatal ==
    /\ [](InsertFailed => (commits = 0 /\ index = << >> /\ mpc # "returned"))
    /\ \A w \in 1..MaxThreads :
           (w \in Workers /\ InsertFailed /\ wpc[w] = "send")
               ~> (w \in Workers /\ wpc[w] = "panicked")

\* an insert failed while a producer was at its send, the buffer full
C16_Witness ==
    /\ InsertFailed
    /\ \E w \in Workers : wpc[w] = "panicked" /\ wentry[w] # NoEntry
    /\ mpc = "panicked"

\* a thread of build_index has panicked
Panicked == wrpc = "panicked" \/ \E w \in Workers : wpc[w] = "panicked"

\* C17: under fair scheduling, once the walk has been quit, and unless some
\* thread panics, build_index returns, after exactly one commit, an index
\* in which every Entry that was sent has been added.
C17_QuitStillCompletes ==
    [](quit => <>(Panicked \/ (/\ mpc = "returned"
                                 /\ commits = 1
                                 /\ docs = ExpectedDocs
                                 /\ index = docs)))

\* build_index has returned an index holding a Document after the walk was
\* quit with an entry left unvisited
C17_Witness ==
    /\ quit /\ pending # {}
    /\ mpc = "returned" /\ Len(docs) >= 1 /\ docs = ExpectedDocs

\* C18 (as claimed): a producer blocked on send and the writer blocked on
\* receive never coincide, and under fair scheduling, unless an extraction,
\* an insert or the commit fails, every Sender is dropped, the writer
\* commits and ends, and build_index returns.
C18_DeadlockFree ==
    /\ [](~(/\ \E w \in Workers : wpc[w] = "send" /\ rxAlive /\ Len(queue) >= ChannelCap
            /\ wrpc = "recv" /\ queue = << >>))
    /\ <>(\/ failed # {}
          \/ wrpc = "panicked"
          \/ (mpc = "returned" /\ ~SendersAlive /\ wrpc = "finished" /\ commits = 1))

\* C19: in main.rs, under fair scheduling and unless the writer panics, main
\* returns for every input; when it does no pool thread is left at its send,
\* every line has been read and every job run, every Entry that process
\* produced has been sent and every Entry sent has been added, and exactly
\* one commit has been made, after the last add.
C19_StdinTerminates ==
    /\ <>(wrpc = "panicked" \/ mpc = "returned")
    /\ [](mpc = "returned" =>
             /\ commits = 1 /\ wrpc = "finished"
             /\ docs = ExpectedDocs /\ index = docs
             /\ queue = << >> /\ jobs = << >> /\ lines = << >>
             /\ \A w \in Workers : wpc[w] = "idle"
             /\ produced = sentOf)
    /\ [](commits <= 1 /\ addsAfter = 0)

\* main has returned after indexing more Entries than the channel and the
\* pool's threads hold together
C19_Witness ==
    /\ mpc = "returned" /\ commits = 1
    /\ Len(docs) > StdinChannelCap + PoolThreads

====
